---------------------------- MODULE Spec2Model ----------------------------
(***************************************************************************)
(* The two sheet inspection scripts of the repository,                     *)
(* check_headers.py and check_sheet_structure.py, as one state machine.    *)
(* A run authenticates, then walks the list of product sheets; for each    *)
(* sheet it sends one values().get request, waits for the reply and prints *)
(* a listing of the returned rows.  The remote spreadsheet and the         *)
(* authentication service are the environment: which replies fail is a     *)
(* nondeterministic choice.                                                *)
(***************************************************************************)
EXTENDS Integers, Sequences, FiniteSets, TLC

VARIABLES
    script,      \* which of the two scripts this run executes
    pc,          \* position of the run in the script
    credentials, \* the service-account credentials, once loaded
    service,     \* the client handle built from the credentials
    pass,        \* 1: header loop, 2: data-sample loop
    pos,         \* 1-based position of the loop in the sheet list
    inflight,    \* requests sent and not yet answered
    response,    \* what the last execute() returned or raised
    fetchLog,    \* every request sent so far, in order
    replies,     \* the remote's answer to each logged request, in order
    output,      \* what has been printed so far, in order
    remote,      \* the content of the remote spreadsheet
    abortCause   \* why the run ended with a traceback, if it did

vars == <<script, pc, credentials, service, pass, pos, inflight, response,
          fetchLog, replies, output, remote, abortCause>>

---------------------------------------------------------------------------
(* Bounds of the remote spreadsheets the model explores. *)

MaxGridCols == 27

MaxGridRows == 5

---------------------------------------------------------------------------
(* Program constants. *)

Scripts == {"check_headers", "check_sheet_structure"}

sheets_to_check == <<"Gemini", "ChatGPT", "YouTube", "Perplexity">>

NumSheets == Len(sheets_to_check)

SheetNames == {sheets_to_check[k] : k \in 1..NumSheets}

SCOPES == "spreadsheets.readonly"

---------------------------------------------------------------------------
(* Python builtins used by the scripts. *)

Min(a, b) == IF a <= b THEN a ELSE b

\* Code points 64..93 of the character table, in order.
CharTable ==
    <<"@", "A", "B", "C", "D", "E", "F", "G", "H", "I", "J", "K", "L", "M",
      "N", "O", "P", "Q", "R", "S", "T", "U", "V", "W", "X", "Y", "Z",
      "[", "\\", "]">>

\* chr(n) for the code points the scripts can produce.
chr(n) == CharTable[n - 63]

\* dict.get(key, default)
DictGet(d, key, default) == IF key \in DOMAIN d THEN d[key] ELSE default

\* list[i] with a 0-based index: the element, or IndexError.
Subscript(list, i) ==
    IF i < Len(list)
    THEN [exc |-> "none", val |-> list[i + 1]]
    ELSE [exc |-> "IndexError", val |-> <<>>]

---------------------------------------------------------------------------
(* The remote tabular-data API.  A spreadsheet maps the names of its tabs   *)
(* to grids; a grid is a sequence of rows of string cells.                 *)

ExampleRow == <<"Name", "Date", "", "Status">>

OtherRow == <<"ID", "", "Email">>

CellAt(labels, i) == IF i <= Len(labels) THEN labels[i] ELSE "x"

\* A tab of nrows rows of the given width, each row starting with the
\* labels; the rows in blank are empty.
Grid(nrows, width, blank, labels) ==
    [tab  |-> TRUE,
     grid |-> [j \in 1..nrows |->
                 [i \in 1..width |->
                     IF j \in blank THEN "" ELSE CellAt(labels, i)]]]

\* No tab of that name.
NoSheet == [tab |-> FALSE, grid |-> <<>>]

SampleGrids ==
    << Grid(2, 4, {}, ExampleRow),
       NoSheet,
       Grid(MaxGridRows, MaxGridCols, {}, OtherRow),
       Grid(0, 0, {}, ExampleRow),
       Grid(2, 3, {1}, ExampleRow),
       Grid(1, 11, {}, OtherRow),
       Grid(3, 26, {2}, ExampleRow),
       Grid(MaxGridRows, 12, {4}, OtherRow) >>

NumWorlds == Len(SampleGrids)

SheetIndex(s) == CHOOSE n \in 1..NumSheets : sheets_to_check[n] = s

SampleFor(b, s) == SampleGrids[((b + SheetIndex(s) - 2) % NumWorlds) + 1]

\* The spreadsheet whose k-th product sheet is the (b + k - 1)-th sample.
World(b) ==
    [s \in {n \in SheetNames : SampleFor(b, n).tab} |-> SampleFor(b, s).grid]

Alphabet == SubSeq(CharTable, 2, 27)

ColumnLabels == Alphabet \o <<"AA", "AB">>

\* The 1-based column number of an A1-notation column label.
ColNumber(label) ==
    CHOOSE n \in 1..Len(ColumnLabels) : ColumnLabels[n] = label

RECURSIVE TrimTrailing(_, _)
\* seq without its trailing elements equal to empty.
TrimTrailing(seq, empty) ==
    IF seq = <<>> THEN <<>>
    ELSE IF seq[Len(seq)] = empty
         THEN TrimTrailing(SubSeq(seq, 1, Len(seq) - 1), empty)
         ELSE seq

\* The cells of a grid inside a range: rows and cells past the last
\* populated one are omitted.
RangeValues(grid, rng) ==
    LET c1   == ColNumber(rng.c1)
        c2   == ColNumber(rng.c2)
        last == Min(rng.r2, Len(grid))
        rows == [j \in 1..(IF last >= rng.r1 THEN last - rng.r1 + 1 ELSE 0) |->
                    LET row == grid[rng.r1 + j - 1]
                    IN  TrimTrailing(SubSeq(row, c1, Min(c2, Len(row))), "")]
    IN  TrimTrailing(rows, <<>>)

\* The response body of values().get: 'values' is absent when no cell of
\* the range is populated.
ValuesGet(grid, rng) ==
    LET rows == RangeValues(grid, rng)
    IN  IF rows = <<>>
        THEN [range |-> rng]
        ELSE [range |-> rng, values |-> rows]

\* The spreadsheet after a request has been served.
ApplyRequest(rem, req, scope) ==
    IF req.method = "get" \/ scope = "spreadsheets.readonly"
       \/ req.range.sheet \notin DOMAIN rem
    THEN rem
    ELSE [rem EXCEPT ![req.range.sheet] = <<>>]

---------------------------------------------------------------------------
(* The scripts: the range each loop asks for and what it prints. *)

\* range_name with a header range one column too wide, 'sheet'!A1:AA2.
range_name_wide(scr, p, sheet_name) ==
    IF scr = "check_headers"
    THEN [sheet |-> sheet_name, c1 |-> "A", r1 |-> 2, c2 |-> "K", r2 |-> 2]
    ELSE IF p = 1
         THEN [sheet |-> sheet_name, c1 |-> "A", r1 |-> 1, c2 |-> "AA", r2 |-> 2]
         ELSE [sheet |-> sheet_name, c1 |-> "A", r1 |-> 1, c2 |-> "J", r2 |-> 4]

\* range_name of a loop iteration: 'sheet'!A1:Z2 and 'sheet'!A1:J4 in
\* check_sheet_structure.py, sheet!A2:K2 in check_headers.py.
range_name(scr, p, sheet_name) ==
    IF scr = "check_headers"
    THEN [sheet |-> sheet_name, c1 |-> "A", r1 |-> 2, c2 |-> "K", r2 |-> 2]
    ELSE IF p = 1
         THEN [sheet |-> sheet_name, c1 |-> "A", r1 |-> 1, c2 |-> "Z", r2 |-> 2]
         ELSE [sheet |-> sheet_name, c1 |-> "A", r1 |-> 1, c2 |-> "J", r2 |-> 4]

\* A request that clears the range instead of reading it.
RequestClear(scr, p, sheet_name) ==
    [method |-> "clear", range |-> range_name(scr, p, sheet_name)]

\* The request a loop iteration sends: service.spreadsheets().values().get
Request(scr, p, sheet_name) ==
    [method |-> "get", range |-> range_name(scr, p, sheet_name)]

\* col_letter computed as if the index were 1-based.
col_letter_one_based(i) == chr(64 + i)

\* col_letter = chr(65 + i)
col_letter(i) == chr(65 + i)

RECURSIVE EnumerateFrom(_, _)
\* The (i, val) pairs of enumerate(row) from index i on, each printed
\* as "  {col_letter} = {val}".
EnumerateFrom(row, i) ==
    IF i >= Len(row) THEN <<>>
    ELSE <<[index |-> i, letter |-> col_letter(i), value |-> row[i + 1]]>>
         \o EnumerateFrom(row, i + 1)

\* The listing of a row with its empty cells dropped before enumerate().
PrintRowSkipBlank(row) ==
    EnumerateFrom(SelectSeq(row, LAMBDA cell : cell # ""), 0)

\* for i, val in enumerate(row): print(f"  {col_letter} = {val}")
PrintRow(row) == EnumerateFrom(row, 0)

\* headers without the guard: result.get('values', [])[0]
headers_unguarded(result) == Subscript(DictGet(result, "values", <<>>), 0)

\* headers = result.get('values', [[]])[0] if result.get('values') else []
\* (None and the empty list are both falsy.)
headers(result) ==
    IF DictGet(result, "values", <<>>) # <<>>
    THEN Subscript(DictGet(result, "values", <<<<>>>>), 0)
    ELSE [exc |-> "none", val |-> <<>>]

\* rows[k] if len(rows[k]) > 0 else []
RowOrEmpty(rows, k) == IF Len(rows[k + 1]) > 0 THEN rows[k + 1] ELSE <<>>

\* The body of the loop of check_headers.py, after execute() has returned:
\* the exception it raises, if any, and what it prints.
HeadersBody(sheet, result) ==
    LET h == headers(result)
    IN  IF h.exc # "none"
        THEN [exc |-> h.exc, printed |-> <<>>]
        ELSE [exc     |-> "none",
              printed |-> <<[kind |-> "listing", sheet |-> sheet,
                             body |-> <<[label   |-> "",
                                         entries |-> PrintRow(h.val)]>>]>>]

\* The try body of the header loop of check_sheet_structure.py, after
\* execute() has returned.
StructureBody(sheet_name, result) ==
    LET rows == DictGet(result, "values", <<>>)
        row1 == IF Len(rows) >= 1
                THEN <<[label   |-> "ROW 1 (Title/Label?):",
                        entries |-> PrintRow(RowOrEmpty(rows, 0))]>>
                ELSE <<>>
        row2 == IF Len(rows) >= 2
                THEN <<[label   |-> "ROW 2 (Header?):",
                        entries |-> PrintRow(RowOrEmpty(rows, 1))]>>
                ELSE <<>>
    IN  [exc     |-> "none",
         printed |-> <<[kind |-> "listing", sheet |-> sheet_name,
                        body |-> row1 \o row2]>>]

\* The try body of the data-sample loop of check_sheet_structure.py, after
\* execute() has returned.
SampleBody(sheet_name, result) ==
    LET rows == DictGet(result, "values", <<>>)
        data == SubSeq(rows, 2, Min(4, Len(rows)))
        body == IF rows # <<>>
                THEN <<[label |-> "Row 1 (Header)", idx |-> 1, row |-> rows[1]]>>
                     \o [k \in 1..Len(data) |->
                            [label |-> "Data", idx |-> k + 1, row |-> data[k]]]
                ELSE <<[label |-> "(No data)", idx |-> 0, row |-> <<>>]>>
    IN  [exc     |-> "none",
         printed |-> <<[kind |-> "sample", sheet |-> sheet_name,
                        body |-> body]>>]

\* One loop iteration after execute(): an exception raised by execute()
\* leaves the body at once, otherwise the body of the loop runs.
Iteration(scr, p, sheet_name, resp) ==
    IF resp.status = "error"
    THEN [exc |-> resp.cause, printed |-> <<>>]
    ELSE IF scr = "check_headers" THEN HeadersBody(sheet_name, resp.body)
    ELSE IF p = 1 THEN StructureBody(sheet_name, resp.body)
    ELSE SampleBody(sheet_name, resp.body)

\* print(f"... Error reading {sheet_name}: {e}")
Diagnostic(sheet_name, e) ==
    <<[kind |-> "error", sheet |-> sheet_name, cause |-> e]>>

Banner(text) == <<[kind |-> "banner", text |-> text]>>

DoneMessage == <<[kind |-> "done", text |-> "Done!"]>>

---------------------------------------------------------------------------
(* The run. *)

Init ==
    /\ script \in Scripts
    /\ pc = "credentials"
    /\ credentials = [state |-> "unset", scopes |-> ""]
    /\ service = [state |-> "unset", scopes |-> ""]
    /\ pass = 1
    /\ pos = 1
    /\ inflight = <<>>
    /\ response = [status |-> "none"]
    /\ fetchLog = <<>>
    /\ replies = <<>>
    /\ output = <<>>
    /\ remote \in {World(b) : b \in 1..NumWorlds}
    /\ abortCause = "none"

\* The title the script prints before its first loop.
Title(scr) ==
    IF scr = "check_headers"
    THEN "STRUKTUR AKTUAL SEMUA PRODUCT SHEETS"
    ELSE "STRUKTUR HEADER GOOGLE SHEETS - AUDIT"

\* LoadCredentials with the failure swallowed: the script goes on.
LoadCredentialsIgnored ==
    /\ pc = "credentials"
    /\ \E ok \in BOOLEAN :
          credentials' = IF ok THEN [state |-> "loaded", scopes |-> SCOPES]
                         ELSE [state |-> "failed", scopes |-> ""]
    /\ pc' = "build"
    /\ UNCHANGED <<script, service, pass, pos, inflight, response, fetchLog,
                   replies, output, remote, abortCause>>

\* credentials = service_account.Credentials.from_service_account_file(...)
\* at module level: an exception here ends the script.
LoadCredentials ==
    /\ pc = "credentials"
    /\ \E ok \in BOOLEAN :
          IF ok
          THEN /\ credentials' = [state |-> "loaded", scopes |-> SCOPES]
               /\ pc' = "build"
               /\ abortCause' = abortCause
          ELSE /\ credentials' = [state |-> "failed", scopes |-> ""]
               /\ pc' = "aborted"
               /\ abortCause' = "AuthError"
    /\ UNCHANGED <<script, service, pass, pos, inflight, response, fetchLog,
                   replies, output, remote>>

\* service = build('sheets', 'v4', credentials=credentials) at module
\* level, then the title is printed.
BuildService ==
    /\ pc = "build"
    /\ \E ok \in BOOLEAN :
          IF ok
          THEN /\ service' = [state |-> "built", scopes |-> credentials.scopes]
               /\ pc' = "loop"
               /\ output' = output \o Banner(Title(script))
               /\ abortCause' = abortCause
          ELSE /\ service' = [state |-> "failed", scopes |-> ""]
               /\ pc' = "aborted"
               /\ output' = output
               /\ abortCause' = "AuthError"
    /\ UNCHANGED <<script, credentials, pass, pos, inflight, response,
                   fetchLog, replies, remote>>

\* The head of a loop iteration: the request for the current sheet is
\* built and execute() sends it.
IssueRead ==
    /\ pc = "loop"
    /\ LET req == Request(script, pass, sheets_to_check[pos])
       IN  /\ inflight' = Append(inflight, req)
           /\ fetchLog' = Append(fetchLog, [pass |-> pass, request |-> req])
    /\ pc' = "await"
    /\ UNCHANGED <<script, credentials, service, pass, pos, response, replies,
                   output, remote, abortCause>>

\* The answer of the remote to a request it has served.
Served(rem, req, scope) ==
    IF req.range.sheet \notin DOMAIN rem
    THEN [status |-> "error", cause |-> "HttpError"]
    ELSE IF req.method = "get"
    THEN [status |-> "ok", body |-> ValuesGet(rem[req.range.sheet], req.range)]
    ELSE IF scope = "spreadsheets.readonly"
    THEN [status |-> "error", cause |-> "HttpError"]
    ELSE [status |-> "ok", body |-> [range |-> req.range]]

\* execute() completes: the request is lost on the way (a transport
\* error) or the remote serves it, and execute() returns or raises.
RemoteReply ==
    /\ pc = "await"
    /\ inflight # <<>>
    /\ LET req == Head(inflight)
       IN  \E lost \in BOOLEAN :
              LET reply == IF lost
                           THEN [status |-> "error", cause |-> "TransportError"]
                           ELSE Served(remote, req, service.scopes)
              IN  /\ response' = reply
                  /\ replies' = Append(replies, reply.status)
                  /\ remote' = IF lost THEN remote
                               ELSE ApplyRequest(remote, req, service.scopes)
    /\ inflight' = Tail(inflight)
    /\ pc' = "received"
    /\ UNCHANGED <<script, credentials, service, pass, pos, fetchLog, output,
                   abortCause>>

\* What the current loop iteration does with the response.
Current == Iteration(script, pass, sheets_to_check[pos], response)

\* The end of a loop iteration that has printed `printed`: the next sheet,
\* or the next loop after its title, or the end of the script.
EndOfIteration(printed) ==
    IF pos < NumSheets
    THEN /\ pos' = pos + 1
         /\ pass' = pass
         /\ pc' = "loop"
         /\ output' = output \o printed
    ELSE IF script = "check_sheet_structure" /\ pass = 1
    THEN /\ pos' = 1
         /\ pass' = 2
         /\ pc' = "loop"
         /\ output' = output \o printed
                             \o Banner("CHECKING DATA SAMPLES (First 3 rows)")
    ELSE /\ pos' = pos
         /\ pass' = pass
         /\ pc' = "done"
         /\ output' = output \o printed
                             \o (IF script = "check_sheet_structure"
                                 THEN DoneMessage ELSE <<>>)

\* check_headers.py: the body of the loop prints the headers of the sheet.
HeadersIteration ==
    /\ pc = "received"
    /\ script = "check_headers"
    /\ Current.exc = "none"
    /\ EndOfIteration(Current.printed)
    /\ UNCHANGED <<script, credentials, service, inflight, response, fetchLog,
                   replies, remote, abortCause>>

\* check_headers.py: the loop has no handler, an exception raised in its
\* body ends the script with a traceback.
UncaughtException ==
    /\ pc = "received"
    /\ script = "check_headers"
    /\ Current.exc # "none"
    /\ pc' = "aborted"
    /\ abortCause' = Current.exc
    /\ output' = output \o Current.printed
    /\ UNCHANGED <<script, credentials, service, pass, pos, inflight, response,
                   fetchLog, replies, remote>>

\* check_sheet_structure.py: the try body of either loop completes.
StructureIteration ==
    /\ pc = "received"
    /\ script = "check_sheet_structure"
    /\ Current.exc = "none"
    /\ EndOfIteration(Current.printed)
    /\ UNCHANGED <<script, credentials, service, inflight, response, fetchLog,
                   replies, remote, abortCause>>

\* The handler as "except Exception: pass": nothing is printed.
ExceptHandlerSilent ==
    /\ pc = "received"
    /\ script = "check_sheet_structure"
    /\ Current.exc # "none"
    /\ EndOfIteration(Current.printed)
    /\ UNCHANGED <<script, credentials, service, inflight, response, fetchLog,
                   replies, remote, abortCause>>

\* The handler retrying the sheet: the loop stays on the same position.
ExceptHandlerRetry ==
    /\ pc = "received"
    /\ script = "check_sheet_structure"
    /\ Current.exc # "none"
    /\ output' = output \o Current.printed
                        \o Diagnostic(sheets_to_check[pos], Current.exc)
    /\ pc' = "loop"
    /\ UNCHANGED <<script, credentials, service, pass, pos, inflight, response,
                   fetchLog, replies, remote, abortCause>>

\* check_sheet_structure.py: except Exception as e, in either loop, prints
\* the diagnostic and the loop goes on.
ExceptHandler ==
    /\ pc = "received"
    /\ script = "check_sheet_structure"
    /\ Current.exc # "none"
    /\ EndOfIteration(Current.printed
                      \o Diagnostic(sheets_to_check[pos], Current.exc))
    /\ UNCHANGED <<script, credentials, service, inflight, response, fetchLog,
                   replies, remote, abortCause>>

Next ==
    \/ LoadCredentials
    \/ BuildService
    \/ IssueRead
    \/ RemoteReply
    \/ HeadersIteration
    \/ UncaughtException
    \/ StructureIteration
    \/ ExceptHandler

Spec == Init /\ [][Next]_vars

---------------------------------------------------------------------------
(* Observations of a run, used by the properties below. *)

Letters ==
    <<"A", "B", "C", "D", "E", "F", "G", "H", "I", "J", "K", "L", "M",
      "N", "O", "P", "Q", "R", "S", "T", "U", "V", "W", "X", "Y", "Z">>

IsReport(item) == item.kind \in {"listing", "sample", "error"}

\* The per-sheet reports printed so far, in order.
Reports == SelectSeq(output, IsReport)

IsSampleTitle(item) ==
    item.kind = "banner" /\ item.text = "CHECKING DATA SAMPLES (First 3 rows)"

\* The position in the output of the title of the data-sample loop.
SampleTitleAt ==
    IF \E i \in 1..Len(output) : IsSampleTitle(output[i])
    THEN CHOOSE i \in 1..Len(output) : IsSampleTitle(output[i])
    ELSE Len(output) + 1

\* The per-sheet reports printed by loop p, in order.
PassOutput(p) ==
    IF p = 1
    THEN SelectSeq(SubSeq(output, 1, SampleTitleAt - 1), IsReport)
    ELSE SelectSeq(SubSeq(output, SampleTitleAt + 1, Len(output)), IsReport)

\* The positions in the log of the requests loop p has sent, in order.
PassLog(p) ==
    LET InPass(i) == fetchLog[i].pass = p
    IN  SelectSeq([i \in 1..Len(fetchLog) |-> i], InPass)

\* The sheets loop p has sent a request for, in order.
PassReads(p) ==
    [k \in 1..Len(PassLog(p)) |-> fetchLog[PassLog(p)[k]].request.range.sheet]

\* The loops of the running script.
Passes == IF script = "check_headers" THEN {1} ELSE {1, 2}

\* Loop p has run to its end.
PassComplete(p) ==
    IF script = "check_sheet_structure" /\ p = 1
    THEN pass = 2
    ELSE pc = "done"

\* The number of answers the loops have taken from execute() so far.
Consumed == IF pc = "received" THEN Len(replies) - 1 ELSE Len(replies)

\* Every entry printed so far in a listing of header cells.
AllEntries ==
    UNION { UNION { { output[i].body[j].entries[k] :
                        k \in 1..Len(output[i].body[j].entries) } :
                    j \in 1..Len(output[i].body) } :
            i \in {n \in 1..Len(output) : output[n].kind = "listing"} }

Terminated == pc \in {"done", "aborted"}

---------------------------------------------------------------------------
(* Properties. *)

\* C1: in every loop over the sheet list, of either script, a failed fetch
\* for the sheet at position k is followed by a fetch for every sheet at a
\* position after k: once the run has ended, every sheet after a failed one
\* has had its request sent in the same loop.
C1_NoShortCircuit ==
    Terminated =>
        \A i \in 1..Len(replies) :
            replies[i] = "error" =>
                \A k \in 1..NumSheets :
                    k > SheetIndex(fetchLog[i].request.range.sheet) =>
                        \E j \in 1..Len(fetchLog) :
                            /\ j > i
                            /\ fetchLog[j].pass = fetchLog[i].pass
                            /\ fetchLog[j].request.range.sheet
                                   = sheets_to_check[k]

\* The same statement for check_sheet_structure.py alone, whose loops have
\* an except handler.
NoShortCircuitInStructure ==
    script = "check_sheet_structure" => C1_NoShortCircuit

C3_FetchFailureNeverAborts ==
    service.state = "built" => pc # "aborted"

\* The same statement for check_sheet_structure.py alone.
FetchFailureNeverAbortsStructure ==
    script = "check_sheet_structure" => C3_FetchFailureNeverAborts

\* C4: when loading the credentials or building the client fails, the run
\* is over: no request has been or is ever sent and nothing is printed about
\* a sheet.
C4_AuthFailureIsFatal ==
    (credentials.state = "failed" \/ service.state = "failed") =>
        /\ pc = "aborted"
        /\ fetchLog = <<>>
        /\ inflight = <<>>
        /\ Reports = <<>>

\* The client could not be built from credentials that had loaded.
C4_Witness ==
    /\ credentials.state = "loaded"
    /\ service.state = "failed"
    /\ pc = "aborted"

C6_IndexToLetter ==
    /\ \A e \in AllEntries :
          e.index \in 0..25 => e.letter = Letters[e.index + 1]
    /\ \A e1, e2 \in AllEntries :
          (e1.letter = e2.letter) <=> (e1.index = e2.index)

\* Index 25 has been printed as 'Z', and the first cell of two sheets with
\* different content has been printed with the same letter.
C6_Witness ==
    /\ \E e \in AllEntries : e.index = 25 /\ e.letter = "Z"
    /\ \E i1, i2 \in 1..Len(output) :
          /\ output[i1].kind = "listing"
          /\ output[i2].kind = "listing"
          /\ output[i1].sheet # output[i2].sheet
          /\ \E j1 \in 1..Len(output[i1].body), j2 \in 1..Len(output[i2].body) :
                /\ output[i1].body[j1].entries # <<>>
                /\ output[i2].body[j2].entries # <<>>
                /\ output[i1].body[j1].entries[1].value
                       # output[i2].body[j2].entries[1].value
                /\ output[i1].body[j1].entries[1].letter
                       = output[i2].body[j2].entries[1].letter

\* The rows the remote returns for the header range of a sheet.
ReturnedRows(sheet) ==
    IF sheet \in DOMAIN remote
    THEN RangeValues(remote[sheet], range_name(script, 1, sheet))
    ELSE <<>>

\* The entries a row decodes to: one per cell, in order, with the 0-based
\* position of the cell, its letter and its value.
Decoded(entries, row) ==
    /\ Len(entries) = Len(row)
    /\ \A k \in 1..Len(row) :
          /\ entries[k].index = k - 1
          /\ entries[k].letter = Letters[k]
          /\ entries[k].value = row[k]

\* C7: every printed listing has, for each row returned, exactly one entry
\* per cell of the row, in the row's order, pairing the 0-based position of
\* the cell with its letter and its unchanged value; an empty cell inside
\* the row keeps its entry and shifts nothing after it.
C7_OneEntryPerCell ==
    \A i \in 1..Len(output) :
        output[i].kind = "listing" =>
            LET rows == ReturnedRows(output[i].sheet)
            IN  \A j \in 1..Len(output[i].body) :
                    Decoded(output[i].body[j].entries,
                            IF j <= Len(rows) THEN rows[j] ELSE <<>>)

\* The row ["Name", "Date", "", "Status"] has been printed as
\* (0,'A',"Name"), (1,'B',"Date"), (2,'C',""), (3,'D',"Status").
C7_Witness ==
    \E i \in 1..Len(output) :
        /\ output[i].kind = "listing"
        /\ \E j \in 1..Len(output[i].body) :
              output[i].body[j].entries =
                  << [index |-> 0, letter |-> "A", value |-> "Name"],
                     [index |-> 1, letter |-> "B", value |-> "Date"],
                     [index |-> 2, letter |-> "C", value |-> ""],
                     [index |-> 3, letter |-> "D", value |-> "Status"] >>

\* The number of columns of the range a loop asks for.
SpanOf(p) ==
    IF script = "check_headers" THEN 11 ELSE IF p = 1 THEN 26 ELSE 10

\* The report of a successful fetch is a listing no wider than the range;
\* a response without rows gives a listing without entries.
EmptyIsListed(report, reply, p) ==
    /\ report.kind # "error"
    /\ report.kind = "listing" =>
          /\ \A j \in 1..Len(report.body) :
                Len(report.body[j].entries) <= SpanOf(p)
          /\ "values" \notin DOMAIN reply =>
                \A j \in 1..Len(report.body) : report.body[j].entries = <<>>
    /\ report.kind = "sample" =>
          /\ \A j \in 1..Len(report.body) : Len(report.body[j].row) <= SpanOf(p)
          /\ "values" \notin DOMAIN reply =>
                report.body = <<[label |-> "(No data)", idx |-> 0, row |-> <<>>]>>

\* C8: an empty result is not an error: a fetch that succeeds with no rows,
\* with an empty row or with a row shorter than the range is reported as a
\* listing with no or fewer entries, never as an error, and never ends the
\* run: the loop goes on to the next sheet.
C8_EmptyResultIsNotAnError ==
    /\ pc = "aborted" =>
          abortCause \in {"AuthError", "HttpError", "TransportError"}
    /\ \A i \in 1..Len(output) :
          output[i].kind = "error" =>
              output[i].cause \in {"HttpError", "TransportError"}
    /\ \A i \in 1..Consumed :
          replies[i] = "ok" =>
              /\ i <= Len(Reports)
              /\ Reports[i].sheet = fetchLog[i].request.range.sheet
              /\ EmptyIsListed(Reports[i],
                               ValuesGet(remote[Reports[i].sheet],
                                         fetchLog[i].request.range),
                               fetchLog[i].pass)

\* check_headers.py has run to its end after printing a sheet whose
\* response had no rows, with no entries.
C8_Witness ==
    /\ script = "check_headers"
    /\ pc = "done"
    /\ \E i \in 1..Len(Reports) :
          /\ i < Len(Reports)
          /\ Reports[i].kind = "listing"
          /\ Reports[i].body[1].entries = <<>>
          /\ RangeValues(remote[Reports[i].sheet],
                         fetchLog[i].request.range) = <<>>

\* C9: the run is read-only: every request it sends is a read of the values
\* of a range, and no step of a run changes the content of the spreadsheet.
C9_ReadOnly ==
    [][/\ remote' = remote
       /\ \A i \in 1..Len(fetchLog') : fetchLog'[i].request.method = "get"]_vars

\* A run has ended after successful and failed fetches.
C9_Witness ==
    /\ pc = "done"
    /\ \E i \in 1..Len(replies) : replies[i] = "ok"
    /\ \E i \in 1..Len(replies) : replies[i] = "error"

\* C10: every index printed with a letter lies in the single-letter range:
\* at most 10 in check_headers.py (range A2:K2), at most 25 in
\* check_sheet_structure.py (range A1:Z2), the remote returning no row wider
\* than the range; so every letter printed is one of 'A'..'Z'.
C10_IndexWithinSpan ==
    \A e \in AllEntries :
        /\ e.index >= 0
        /\ e.index <= (IF script = "check_headers" THEN 10 ELSE 25)
        /\ \E k \in 1..Len(Letters) : e.letter = Letters[k]

\* The last column of the range has been printed for a sheet whose rows are
\* wider than the range.
C10_Witness ==
    \E i \in 1..Len(output) :
        /\ output[i].kind = "listing"
        /\ \E r \in 1..Len(remote[output[i].sheet]) :
              Len(remote[output[i].sheet][r]) > 26
        /\ \E j \in 1..Len(output[i].body) :
              \E k \in 1..Len(output[i].body[j].entries) :
                  output[i].body[j].entries[k].index = 25

=============================================================================
